---------------------------- MODULE Spec2Model ----------------------------
(***************************************************************************)
(* GWin32InputStream (gio/gwin32inputstream.c): a GInputStream over one    *)
(* Win32 HANDLE.  The private state is the pair (handle, close_handle);    *)
(* read forwards to ReadFile, close optionally to CloseHandle.             *)
(*                                                                         *)
(* Byte counts (gsize, DWORD, gssize) do not fit the checker's integers,   *)
(* so a count is written in base 2^31 as [hi, lo] with 0 <= lo <= G_MAXINT *)
(* and value hi * 2^31 + lo.  -1 is then [hi |-> -1, lo |-> G_MAXINT].     *)
(***************************************************************************)
EXTENDS Integers, Sequences, FiniteSets, TLC

VARIABLES
  alive,      \* a GWin32InputStream instance exists
  priv,       \* its GWin32InputStreamPrivate: [handle, close_handle]
  given,      \* how it was constructed: [via, handle]
  closed,     \* lifecycle kept by the enclosing stream contract
  notifies,   \* "close-handle" notifications emitted so far
  oslog,      \* OS calls issued so far, oldest first: [fn, handle, ok]
  last        \* the last operation: its arguments, result and OS calls

vars == <<alive, priv, given, closed, notifies, oslog, last>>

----------------------------------------------------------------------------
(* Bounds of the model *)

MaxCalls == 2
MaxNotify == 1

----------------------------------------------------------------------------
(* Program constants *)

G_MAXINT == 2147483647
ERROR_HANDLE_EOF == 38
ERROR_BROKEN_PIPE == 109

NULL == 0
FALSE_ == 0
TRUE_ == 1

PROP_HANDLE == 1
PROP_CLOSE_HANDLE == 2

\* Non-null handle values, and gboolean arguments (any non-zero int is true).
Handles == {1, 2}
GBooleans == {0, 1, 2}
Cancellables == {"null", "active", "cancelled"}

\* Platform error codes ReadFile / CloseHandle may leave in GetLastError.
ReadErrors == {ERROR_HANDLE_EOF, ERROR_BROKEN_PIPE, 2, 5}
CloseErrors == {5, 6}

----------------------------------------------------------------------------
(* Byte counts in base 2^31 *)

Size(hi, lo) == [hi |-> hi, lo |-> lo]
Zero == Size(0, 0)
MinusOne == Size(-1, G_MAXINT)
MaxInt == Size(0, G_MAXINT)

SizeLE(a, b) == a.hi < b.hi \/ (a.hi = b.hi /\ a.lo <= b.lo)
SizeMin(a, b) == IF SizeLE(a, b) THEN a ELSE b

\* gsize -> DWORD conversion: the value modulo 2^32.
ToDWORD(n) == Size(n.hi % 2, n.lo)

\* Requested lengths: below, at and above the 32-bit signed maximum.
Counts == {Zero, Size(0, 3), MaxInt, Size(1, 0), Size(2, 2)}

----------------------------------------------------------------------------
(* Errors *)

NoError == [domain |-> "", code |-> "", message |-> <<>>]

\* g_set_error: the format with its %s replaced by the argument.
g_set_error(domain, code, format, arg) ==
  [domain |-> domain, code |-> code,
   message |-> [i \in DOMAIN format |-> IF format[i] = "%s" THEN arg ELSE format[i]]]

g_win32_error_message(errsv) ==
  CASE errsv = 2 -> "The system cannot find the file specified."
    [] errsv = 5 -> "Access is denied."
    [] errsv = 6 -> "The handle is invalid."
    [] errsv = 38 -> "Reached the end of the file."
    [] errsv = 109 -> "The pipe has been ended."
    [] OTHER -> "Unknown error"

g_io_error_from_win32_error(errsv) ==
  CASE errsv = 2 -> "NOT_FOUND"
    [] errsv = 5 -> "PERMISSION_DENIED"
    [] OTHER -> "FAILED"

g_cancellable_set_error_if_cancelled(cancellable) ==
  IF cancellable = "cancelled"
  THEN [set |-> TRUE,
        err |-> [domain |-> "G_IO_ERROR", code |-> "CANCELLED",
                 message |-> <<"Operation was cancelled">>]]
  ELSE [set |-> FALSE, err |-> NoError]

----------------------------------------------------------------------------
(* The OS calls.  os is what the platform answers: whether the call        *)
(* succeeds, how much of the request it fills, and the error code left.    *)

ReadAnswers ==
  [ok : {TRUE}, fill : {"none", "one", "all"}, errsv : {0}]
    \cup [ok : {FALSE}, fill : {"none"}, errsv : ReadErrors]

CloseAnswers ==
  [ok : {TRUE}, fill : {"none"}, errsv : {0}]
    \cup [ok : {FALSE}, fill : {"none"}, errsv : CloseErrors]

ReadFile(handle, nbytes, os) ==
  [fn |-> "ReadFile", handle |-> handle, nbytes |-> nbytes, ok |-> os.ok,
   nread |-> IF ~os.ok \/ os.fill = "none" THEN Zero
             ELSE IF os.fill = "one" THEN SizeMin(Size(0, 1), nbytes)
             ELSE nbytes,
   errsv |-> os.errsv]

CloseHandle(handle, os) ==
  [fn |-> "CloseHandle", handle |-> handle, nbytes |-> Zero, ok |-> os.ok,
   nread |-> Zero, errsv |-> os.errsv]

----------------------------------------------------------------------------
(* Construction *)

g_win32_input_stream_init ==
  [handle |-> NULL, close_handle |-> TRUE_]

g_win32_input_stream_set_property(p, prop_id, value) ==
  CASE prop_id = PROP_HANDLE -> [p EXCEPT !.handle = value]
    [] prop_id = PROP_CLOSE_HANDLE -> [p EXCEPT !.close_handle = value]
    [] OTHER -> p

\* g_object_new (G_TYPE_WIN32_INPUT_STREAM, "handle", h, "close-handle", c):
\* instance init, then each construct property through set_property.
g_object_new(handle, close_handle) ==
  g_win32_input_stream_set_property(
    g_win32_input_stream_set_property(g_win32_input_stream_init,
                                      PROP_HANDLE, handle),
    PROP_CLOSE_HANDLE, close_handle)

\* Mutant: the handle != NULL precondition is not checked.
g_win32_input_stream_new_unchecked(handle, close_handle) ==
  [stream |-> TRUE, critical |-> FALSE,
   priv |-> g_object_new(handle, close_handle)]

g_win32_input_stream_new(handle, close_handle) ==
  IF handle = NULL
  THEN [stream |-> FALSE, critical |-> TRUE,
        priv |-> g_win32_input_stream_init]
  ELSE [stream |-> TRUE, critical |-> FALSE,
        priv |-> g_object_new(handle, close_handle)]

----------------------------------------------------------------------------
(* Accessors *)

\* Mutant: the argument is compared and stored without close_handle != FALSE.
g_win32_input_stream_set_close_handle_raw(p, close_handle) ==
  IF p.close_handle # close_handle
  THEN [priv |-> [p EXCEPT !.close_handle = close_handle], notify |-> 1]
  ELSE [priv |-> p, notify |-> 0]

g_win32_input_stream_set_close_handle(p, close_handle) ==
  LET ch == IF close_handle # FALSE_ THEN TRUE_ ELSE FALSE_
  IN IF p.close_handle # ch
     THEN [priv |-> [p EXCEPT !.close_handle = ch], notify |-> 1]
     ELSE [priv |-> p, notify |-> 0]

g_win32_input_stream_get_close_handle(p) == p.close_handle

g_win32_input_stream_get_handle(p) == p.handle

----------------------------------------------------------------------------
(* read and close *)

ReadFormat == <<"Error reading from handle: ", "%s">>
CloseFormat == <<"Error closing handle: ", "%s">>

ReadError(errsv) ==
  g_set_error("G_IO_ERROR", g_io_error_from_win32_error(errsv), ReadFormat,
              g_win32_error_message(errsv))

CloseError(errsv) ==
  g_set_error("G_IO_ERROR", g_io_error_from_win32_error(errsv), CloseFormat,
              g_win32_error_message(errsv))

\* Mutant: the cancellation check comes after the ReadFile call.
g_win32_input_stream_read_cancel_late(p, count, cancellable, os) ==
  LET c == g_cancellable_set_error_if_cancelled(cancellable)
      nbytes == IF ~SizeLE(count, MaxInt) THEN MaxInt ELSE ToDWORD(count)
      call == ReadFile(p.handle, nbytes, os)
  IN IF c.set
     THEN [priv |-> p, ret |-> MinusOne, err |-> c.err, calls |-> <<call>>]
     ELSE IF ~call.ok
     THEN IF call.errsv = ERROR_HANDLE_EOF \/ call.errsv = ERROR_BROKEN_PIPE
          THEN [priv |-> p, ret |-> Zero, err |-> NoError, calls |-> <<call>>]
          ELSE [priv |-> p, ret |-> MinusOne, err |-> ReadError(call.errsv),
                calls |-> <<call>>]
     ELSE [priv |-> p, ret |-> call.nread, err |-> NoError, calls |-> <<call>>]

\* Mutant: only ERROR_HANDLE_EOF is taken for end of stream.
g_win32_input_stream_read_eof_only(p, count, cancellable, os) ==
  LET c == g_cancellable_set_error_if_cancelled(cancellable)
      nbytes == IF ~SizeLE(count, MaxInt) THEN MaxInt ELSE ToDWORD(count)
      call == ReadFile(p.handle, nbytes, os)
  IN IF c.set
     THEN [priv |-> p, ret |-> MinusOne, err |-> c.err, calls |-> <<>>]
     ELSE IF ~call.ok
     THEN IF call.errsv = ERROR_HANDLE_EOF
          THEN [priv |-> p, ret |-> Zero, err |-> NoError, calls |-> <<call>>]
          ELSE [priv |-> p, ret |-> MinusOne, err |-> ReadError(call.errsv),
                calls |-> <<call>>]
     ELSE [priv |-> p, ret |-> call.nread, err |-> NoError, calls |-> <<call>>]

\* Mutant: a failed ReadFile is tried once more before the error is reported.
g_win32_input_stream_read_retry(p, count, cancellable, os) ==
  LET c == g_cancellable_set_error_if_cancelled(cancellable)
      nbytes == IF ~SizeLE(count, MaxInt) THEN MaxInt ELSE ToDWORD(count)
      call == ReadFile(p.handle, nbytes, os)
  IN IF c.set
     THEN [priv |-> p, ret |-> MinusOne, err |-> c.err, calls |-> <<>>]
     ELSE IF ~call.ok
     THEN IF call.errsv = ERROR_HANDLE_EOF \/ call.errsv = ERROR_BROKEN_PIPE
          THEN [priv |-> p, ret |-> Zero, err |-> NoError, calls |-> <<call>>]
          ELSE [priv |-> p, ret |-> MinusOne, err |-> ReadError(call.errsv),
                calls |-> <<call, call>>]
     ELSE [priv |-> p, ret |-> call.nread, err |-> NoError, calls |-> <<call>>]

\* Mutant: count is narrowed to DWORD without the G_MAXINT clamp.
g_win32_input_stream_read_unclamped(p, count, cancellable, os) ==
  LET c == g_cancellable_set_error_if_cancelled(cancellable)
      nbytes == ToDWORD(count)
      call == ReadFile(p.handle, nbytes, os)
  IN IF c.set
     THEN [priv |-> p, ret |-> MinusOne, err |-> c.err, calls |-> <<>>]
     ELSE IF ~call.ok
     THEN IF call.errsv = ERROR_HANDLE_EOF \/ call.errsv = ERROR_BROKEN_PIPE
          THEN [priv |-> p, ret |-> Zero, err |-> NoError, calls |-> <<call>>]
          ELSE [priv |-> p, ret |-> MinusOne, err |-> ReadError(call.errsv),
                calls |-> <<call>>]
     ELSE [priv |-> p, ret |-> call.nread, err |-> NoError, calls |-> <<call>>]

g_win32_input_stream_read(p, count, cancellable, os) ==
  LET c == g_cancellable_set_error_if_cancelled(cancellable)
      nbytes == IF ~SizeLE(count, MaxInt) THEN MaxInt ELSE ToDWORD(count)
      call == ReadFile(p.handle, nbytes, os)
  IN IF c.set
     THEN [priv |-> p, ret |-> MinusOne, err |-> c.err, calls |-> <<>>]
     ELSE IF ~call.ok
     THEN IF call.errsv = ERROR_HANDLE_EOF \/ call.errsv = ERROR_BROKEN_PIPE
          THEN [priv |-> p, ret |-> Zero, err |-> NoError, calls |-> <<call>>]
          ELSE [priv |-> p, ret |-> MinusOne, err |-> ReadError(call.errsv),
                calls |-> <<call>>]
     ELSE [priv |-> p, ret |-> call.nread, err |-> NoError, calls |-> <<call>>]

\* Mutant: close first polls the cancellable, as read does.
g_win32_input_stream_close_checks_cancel(p, cancellable, os) ==
  LET c == g_cancellable_set_error_if_cancelled(cancellable)
      call == CloseHandle(p.handle, os)
  IN IF c.set
     THEN [priv |-> p, ret |-> FALSE_, err |-> c.err, calls |-> <<>>]
     ELSE IF p.close_handle = FALSE_
     THEN [priv |-> p, ret |-> TRUE_, err |-> NoError, calls |-> <<>>]
     ELSE IF ~call.ok
     THEN [priv |-> p, ret |-> FALSE_, err |-> CloseError(call.errsv),
           calls |-> <<call>>]
     ELSE [priv |-> p, ret |-> TRUE_, err |-> NoError, calls |-> <<call>>]

\* Mutant: a failure of CloseHandle is dropped and close reports success.
g_win32_input_stream_close_ignores_failure(p, cancellable, os) ==
  LET call == CloseHandle(p.handle, os)
  IN IF p.close_handle = FALSE_
     THEN [priv |-> p, ret |-> TRUE_, err |-> NoError, calls |-> <<>>]
     ELSE [priv |-> p, ret |-> TRUE_, err |-> NoError, calls |-> <<call>>]

\* Mutant: a failed CloseHandle is tried once more.
g_win32_input_stream_close_retry(p, cancellable, os) ==
  LET call == CloseHandle(p.handle, os)
  IN IF p.close_handle = FALSE_
     THEN [priv |-> p, ret |-> TRUE_, err |-> NoError, calls |-> <<>>]
     ELSE IF ~call.ok
     THEN [priv |-> p, ret |-> FALSE_, err |-> CloseError(call.errsv),
           calls |-> <<call, call>>]
     ELSE [priv |-> p, ret |-> TRUE_, err |-> NoError, calls |-> <<call>>]

\* Mutant: the stored handle is cleared once it has been released.
g_win32_input_stream_close_clears_handle(p, cancellable, os) ==
  LET call == CloseHandle(p.handle, os)
  IN IF p.close_handle = FALSE_
     THEN [priv |-> p, ret |-> TRUE_, err |-> NoError, calls |-> <<>>]
     ELSE IF ~call.ok
     THEN [priv |-> p, ret |-> FALSE_, err |-> CloseError(call.errsv),
           calls |-> <<call>>]
     ELSE [priv |-> [p EXCEPT !.handle = NULL], ret |-> TRUE_,
           err |-> NoError, calls |-> <<call>>]

g_win32_input_stream_close(p, cancellable, os) ==
  LET call == CloseHandle(p.handle, os)
  IN IF p.close_handle = FALSE_
     THEN [priv |-> p, ret |-> TRUE_, err |-> NoError, calls |-> <<>>]
     ELSE IF ~call.ok
     THEN [priv |-> p, ret |-> FALSE_, err |-> CloseError(call.errsv),
           calls |-> <<call>>]
     ELSE [priv |-> p, ret |-> TRUE_, err |-> NoError, calls |-> <<call>>]

\* The enclosing stream contract: the stream is Closed once close has been
\* invoked, whatever close returned, and nothing reopens it.
ClosedAfterClose(was_closed, ret) == TRUE

----------------------------------------------------------------------------
(* State machine *)

Idle ==
  [op |-> "none", handle |-> NULL, flag |-> FALSE_, count |-> Zero,
   cancellable |-> "null", ret |-> 0, err |-> NoError, calls |-> <<>>,
   critical |-> FALSE]

Logged(calls) == [i \in DOMAIN calls |->
                    [fn |-> calls[i].fn, handle |-> calls[i].handle,
                     ok |-> calls[i].ok]]

Init ==
  /\ alive = FALSE
  /\ priv = g_win32_input_stream_init
  /\ given = [via |-> "none", handle |-> NULL]
  /\ closed = FALSE
  /\ notifies = 0
  /\ oslog = <<>>
  /\ last = Idle

New ==
  /\ ~alive
  /\ \E handle \in Handles \cup {NULL}, close_handle \in {FALSE_, TRUE_} :
       LET r == g_win32_input_stream_new(handle, close_handle)
       IN /\ alive' = r.stream
          /\ priv' = r.priv
          /\ given' = IF r.stream THEN [via |-> "new", handle |-> handle]
                      ELSE given
          /\ last' = [Idle EXCEPT !.op = "new", !.handle = handle,
                                  !.flag = close_handle,
                                  !.critical = r.critical]
  /\ UNCHANGED <<closed, notifies, oslog>>

ObjectNew ==
  /\ ~alive
  /\ \E handle \in Handles \cup {NULL}, close_handle \in {FALSE_, TRUE_} :
       /\ alive' = TRUE
       /\ priv' = g_object_new(handle, close_handle)
       /\ given' = [via |-> "g_object_new", handle |-> handle]
       /\ last' = [Idle EXCEPT !.op = "g_object_new", !.handle = handle,
                               !.flag = close_handle]
  /\ UNCHANGED <<closed, notifies, oslog>>

\* g_object_set (stream, "close-handle", v): set_property stores the value;
\* the object system notifies once per set.
ObjectSet ==
  /\ alive
  /\ notifies + 1 <= MaxNotify
  /\ \E value \in {FALSE_, TRUE_} :
       /\ priv' = g_win32_input_stream_set_property(priv, PROP_CLOSE_HANDLE,
                                                    value)
       /\ last' = [Idle EXCEPT !.op = "g_object_set", !.flag = value]
  /\ notifies' = notifies + 1
  /\ UNCHANGED <<alive, given, closed, oslog>>

SetCloseHandle ==
  /\ alive
  /\ \E close_handle \in GBooleans :
       LET r == g_win32_input_stream_set_close_handle(priv, close_handle)
       IN /\ notifies + r.notify <= MaxNotify
          /\ priv' = r.priv
          /\ notifies' = notifies + r.notify
          /\ last' = [Idle EXCEPT !.op = "set_close_handle",
                                  !.flag = close_handle]
  /\ UNCHANGED <<alive, given, closed, oslog>>

GetCloseHandle ==
  /\ alive
  /\ last' = [Idle EXCEPT !.op = "get_close_handle",
                          !.ret = g_win32_input_stream_get_close_handle(priv)]
  /\ UNCHANGED <<alive, priv, given, closed, notifies, oslog>>

GetHandle ==
  /\ alive
  /\ last' = [Idle EXCEPT !.op = "get_handle",
                          !.ret = g_win32_input_stream_get_handle(priv)]
  /\ UNCHANGED <<alive, priv, given, closed, notifies, oslog>>

Read ==
  /\ alive
  /\ \E count \in Counts, cancellable \in Cancellables, os \in ReadAnswers :
       LET r == g_win32_input_stream_read(priv, count, cancellable, os)
       IN /\ Len(oslog) + Len(r.calls) <= MaxCalls
          /\ priv' = r.priv
          /\ oslog' = oslog \o Logged(r.calls)
          /\ last' = [Idle EXCEPT !.op = "read", !.count = count,
                                  !.cancellable = cancellable,
                                  !.ret = r.ret, !.err = r.err,
                                  !.calls = r.calls]
  /\ UNCHANGED <<alive, given, closed, notifies>>

Close ==
  /\ alive
  /\ \E cancellable \in Cancellables, os \in CloseAnswers :
       LET r == g_win32_input_stream_close(priv, cancellable, os)
       IN /\ Len(oslog) + Len(r.calls) <= MaxCalls
          /\ priv' = r.priv
          /\ oslog' = oslog \o Logged(r.calls)
          /\ closed' = (closed \/ ClosedAfterClose(closed, r.ret))
          /\ last' = [Idle EXCEPT !.op = "close",
                                  !.cancellable = cancellable,
                                  !.ret = r.ret, !.err = r.err,
                                  !.calls = r.calls]
  /\ UNCHANGED <<alive, given, notifies>>

Next ==
  \/ New
  \/ ObjectNew
  \/ ObjectSet
  \/ SetCloseHandle
  \/ GetCloseHandle
  \/ GetHandle
  \/ Read
  \/ Close

Spec == Init /\ [][Next]_vars

----------------------------------------------------------------------------
(* Properties *)

Norm(b) == IF b # FALSE_ THEN TRUE_ ELSE FALSE_
Embeds(message, text) == \E i \in DOMAIN message : message[i] = text
Releases(log) == {i \in DOMAIN log : log[i].fn = "CloseHandle"}

\* C1: a read whose cancellable is already cancelled returns -1 with a
\* Cancelled error and issues no OS call, whatever the stream state and
\* the requested count.
C1_CancelledReadIssuesNoOsCall ==
  [][(last'.op = "read" /\ last'.cancellable = "cancelled")
       => /\ last'.ret = MinusOne
          /\ last'.err.domain = "G_IO_ERROR"
          /\ last'.err.code = "CANCELLED"
          /\ last'.calls = <<>>
          /\ oslog' = oslog]_vars

C1_Witness ==
  /\ last.op = "read"
  /\ last.cancellable = "cancelled"
  /\ last.count = Size(2, 2)
  /\ closed
  /\ Len(oslog) = 1

\* C2: close executed while close_handle is false issues no OS call and
\* returns TRUE without an error, whether or not the cancellable is
\* cancelled and however close_handle came to be false.
C2_CloseWithoutOwnershipIsNoOp ==
  [][(last'.op = "close" /\ priv.close_handle = FALSE_)
       => /\ last'.ret = TRUE_
          /\ last'.err = NoError
          /\ last'.calls = <<>>
          /\ oslog' = oslog]_vars

C2_Witness ==
  /\ last.op = "close"
  /\ last.cancellable = "cancelled"
  /\ priv.close_handle = FALSE_
  /\ notifies = 1
  /\ given.via = "new"
  /\ oslog = <<>>

\* C3: every close executed while close_handle is true issues exactly one
\* CloseHandle call on the stored handle and returns TRUE exactly when that
\* call succeeds, a G_IO_ERROR otherwise; nothing guards a second close, so
\* it issues a second CloseHandle on the same handle.
C3_CloseReleasesExactlyOncePerCall ==
  [][(last'.op = "close" /\ priv.close_handle # FALSE_)
       => /\ Len(oslog') = Len(oslog) + 1
          /\ SubSeq(oslog', 1, Len(oslog)) = oslog
          /\ oslog'[Len(oslog')].fn = "CloseHandle"
          /\ oslog'[Len(oslog')].handle = priv.handle
          /\ (last'.ret = TRUE_) = oslog'[Len(oslog')].ok
          /\ last'.ret \in {TRUE_, FALSE_}
          /\ (last'.ret = TRUE_ => last'.err = NoError)
          /\ (last'.ret = FALSE_ => last'.err.domain = "G_IO_ERROR")]_vars

C3_Witness ==
  /\ last.op = "close"
  /\ Len(oslog) = 2
  /\ Cardinality(Releases(oslog)) = 2
  /\ oslog[1].ok
  /\ oslog[1].handle = oslog[2].handle
  /\ last.ret = FALSE_

\* C4: when the ReadFile call of a non-cancelled read fails with
\* ERROR_HANDLE_EOF or ERROR_BROKEN_PIPE, read returns 0 and sets no error.
C4_EofAndBrokenPipeReadZero ==
  (/\ last.op = "read"
   /\ last.cancellable # "cancelled"
   /\ last.calls # <<>>
   /\ ~last.calls[1].ok
   /\ last.calls[1].errsv \in {ERROR_HANDLE_EOF, ERROR_BROKEN_PIPE})
    => /\ last.ret = Zero
       /\ last.err = NoError

C4_Witness ==
  /\ last.op = "read"
  /\ last.cancellable = "active"
  /\ last.calls # <<>>
  /\ ~last.calls[1].ok
  /\ last.calls[1].errsv = ERROR_BROKEN_PIPE
  /\ last.ret = Zero

\* C5: when the ReadFile call of a non-cancelled read fails with any other
\* code, read returns -1 with a G_IO_ERROR whose code is the mapping of the
\* platform code and whose message embeds the platform error text, after
\* that single OS call.
C5_OtherReadFailureIsReported ==
  [][(/\ last'.op = "read"
      /\ last'.cancellable # "cancelled"
      /\ last'.calls # <<>>
      /\ ~last'.calls[1].ok
      /\ last'.calls[1].errsv \notin {ERROR_HANDLE_EOF, ERROR_BROKEN_PIPE})
       => /\ last'.ret = MinusOne
          /\ last'.err.domain = "G_IO_ERROR"
          /\ last'.err.code = g_io_error_from_win32_error(last'.calls[1].errsv)
          /\ Embeds(last'.err.message,
                    g_win32_error_message(last'.calls[1].errsv))
          /\ Len(last'.calls) = 1
          /\ Len(oslog') = Len(oslog) + 1]_vars

C5_Witness ==
  /\ last.op = "read"
  /\ last.cancellable = "null"
  /\ last.calls # <<>>
  /\ last.calls[1].errsv = 5
  /\ last.err.code = "PERMISSION_DENIED"
  /\ Embeds(last.err.message, "Access is denied.")

\* C6 as stated: construction with a null handle always fails and yields no
\* stream, construction with a non-null handle never fails, and every
\* stream that exists has a non-null handle.
C6_Original ==
  /\ (last.op \in {"new", "g_object_new"} /\ last.handle = NULL)
       => (~alive /\ last.critical)
  /\ (last.op \in {"new", "g_object_new"} /\ last.handle # NULL) => alive
  /\ alive => priv.handle # NULL

\* C6 amended: g_win32_input_stream_new with a null handle fails its
\* precondition and yields no stream, with a non-null handle it yields a
\* stream holding that handle, and every stream made by
\* g_win32_input_stream_new has a non-null handle.
C6_NewRequiresHandle ==
  /\ (last.op = "new" /\ last.handle = NULL) => (~alive /\ last.critical)
  /\ (last.op = "new" /\ last.handle # NULL)
       => (alive /\ ~last.critical /\ priv.handle = last.handle)
  /\ (alive /\ given.via = "new") => priv.handle # NULL

C6_Witness ==
  /\ last.op = "new"
  /\ last.handle = NULL
  /\ ~alive
  /\ last.critical

\* C7: a set_close_handle call emits exactly one notification when its
\* normalised argument differs from the current close_handle and none when
\* it equals it; the second of two consecutive calls with the same value
\* emits none; afterwards get_close_handle returns the normalised value.
C7_NotifyExactlyOnChange ==
  [][last'.op = "set_close_handle"
       => /\ notifies' - notifies
               = (IF Norm(last'.flag) # priv.close_handle THEN 1 ELSE 0)
          /\ g_win32_input_stream_get_close_handle(priv') = Norm(last'.flag)
          /\ (last.op = "set_close_handle" /\ Norm(last.flag) = Norm(last'.flag))
               => notifies' = notifies]_vars

C7_Witness ==
  /\ last.op = "set_close_handle"
  /\ last.flag = 2
  /\ notifies = 1
  /\ given.via = "g_object_new"
  /\ priv.close_handle = TRUE_

\* C8: a non-cancelled read issues exactly one ReadFile call requesting
\* min(count, G_MAXINT) bytes and on success returns the count the OS
\* reported, which never exceeds that request.
C8_ReadClampsRequest ==
  [][(last'.op = "read" /\ last'.cancellable # "cancelled")
       => /\ Len(last'.calls) = 1
          /\ Len(oslog') = Len(oslog) + 1
          /\ oslog'[Len(oslog')].fn = "ReadFile"
          /\ last'.calls[1].fn = "ReadFile"
          /\ last'.calls[1].handle = priv.handle
          /\ last'.calls[1].nbytes = SizeMin(last'.count, MaxInt)
          /\ last'.calls[1].ok
               => /\ last'.ret = last'.calls[1].nread
                  /\ SizeLE(last'.ret, SizeMin(last'.count, MaxInt))
                  /\ SizeLE(Zero, last'.ret)
                  /\ last'.err = NoError]_vars

C8_Witness ==
  /\ last.op = "read"
  /\ last.cancellable = "active"
  /\ last.count = Size(2, 2)
  /\ last.calls # <<>>
  /\ last.calls[1].ok
  /\ last.ret = MaxInt

C10_HandleFixed ==
  /\ [](alive => priv.handle = given.handle)
  /\ [](last.op = "get_handle" => last.ret = given.handle)
  /\ [](DOMAIN priv = {"handle", "close_handle"})
  /\ [][alive => priv'.handle = priv.handle]_vars
  /\ [][last'.op \in {"read", "close"} => priv' = priv]_vars

C10_Witness ==
  /\ last.op = "get_handle"
  /\ last.ret = 2
  /\ closed
  /\ Len(oslog) = 2
  /\ oslog[1].fn = "CloseHandle"
  /\ oslog[1].ok
  /\ notifies = 1

============================================================================
